---- MODULE Spec2Model ----
(***************************************************************************)
(* harmony-hacker as state machines: the overlap-windowing iterator        *)
(* (overlap_chunks.rs), the Goertzel filter (goertzel.rs), the media       *)
(* decoder (audio.rs), the Hann window (window_fn.rs) and, from main.rs,   *)
(* the audio source with its writers file_drop and play_note, the two        *)
(* spectrogram builders and the systems of the Update schedule.  Each      *)
(* component has its own specification; the variables of the other         *)
(* components rest at their idle values meanwhile.                         *)
(***************************************************************************)
EXTENDS Integers, Sequences, FiniteSets, TLC

VARIABLES
    \* ---- overlap_chunks.rs
    slice,          \* the slice overlap_chunks is called on
    chunk_size,     \* argument of overlap_chunks
    overlap,        \* argument of overlap_chunks
    oc_pc,          \* "start" | "iter" | "done" | "panicked"
    iter,           \* the OverlapChunks struct: v, chunk_size, next_chunk_offset
    chunks,         \* the chunks next() has returned so far, in order
    hint,           \* what size_hint() last returned, and after how many chunks
    \* ---- goertzel.rs
    sample_rate,        \* argument of Goertzel::new and goertzel
    target_frequency,   \* argument of Goertzel::new and goertzel
    samples,            \* the input samples
    g_pc,               \* "start" | "ready"
    filter,             \* the Goertzel struct: q0, q1, q2, coeff
    pos,                \* how many of `samples` the filter has been fed
    fed,                \* how many of them since new() or the last reset()
    mag,                \* what magnitude() returned, if it was the last call
    stateless,          \* what goertzel(samples, ..) returned, once called
    \* ---- audio.rs
    file,               \* what is at the path: "missing" | "unknown" | "media"
    tracks,             \* format.tracks(): the tracks, each an id and a codec
    default_track,      \* format.default_track(): an index into tracks, 0 for None
    d_pc,               \* "start" | "failed" | "idle" | "loop" (inside decode)
    new_err,            \* the error Decoder::new returned, "" for none
    track_id,           \* Decoder::track_id
    stream,             \* what next_packet has returned so far, in order
    blocks,             \* the blocks decode() has returned, in order
    ret,                \* the running or last decode() call and its result
    \* ---- main.rs: the audio source and its two writers
    a_pc,               \* "run"
    fft_source,         \* the FftSource resource: name, sample_rate, data
    ev_update_spectrum, \* how many UpdateSpectrum events have been sent
    last,               \* the last file_drop or play_note: what it met and found
    \* ---- main.rs: build_spectrum_fft, build_spectrum_goertzel
    b_pc,               \* "start" | "fft" | "goertzel" | "done" (Ok) | "panicked"
    b_source,           \* the argument source: sample_rate, data
    b_config,           \* the argument config: resolution_hz, duration_sec, algorithm
    window_size,        \* fft_window_size / window_size
    width,              \* size.width
    height,             \* size.height, spectrum_rows
    row,                \* how many iterations of the loop have pushed a row
    key_states,         \* the filter bank of the Goertzel path
    image_data,         \* image.data
    origin,             \* for each byte of image.data, the window it was
                        \* computed from, -1 for a byte resize() added
    prev,               \* the image an earlier build from the same source
                        \* and config returned
    \* ---- window_fn.rs
    h_pc,               \* "start" | "half" | "rest" | "done"
    h_sample_count,     \* argument of hann
    h_window,           \* the vector hann builds and returns
    \* ---- main.rs: the Update schedule
    u_pc,               \* "run" | "panicked"
    u_source,           \* the FftSource resource
    fft_config,         \* the FftConfig resource
    ran,                \* the systems that have run in this frame
    events,             \* Events<UpdateSpectrum>: the events of its two buffers
    event_count,        \* how many UpdateSpectrum events have been sent
    last_event_count,   \* the id of the last event update_spectrum has read
    spectrum,           \* what the image of the Spectrum sprite was built
                        \* by and from
    rebuilt_for,        \* the id of the last event the image was rebuilt for
    lost,               \* how many events were dropped before they were read
    last_pass           \* the last pass of egui_ui: whether it changed the
                        \* config, how many events it sent

oc_vars == <<slice, chunk_size, overlap, oc_pc, iter, chunks, hint>>

g_vars == <<sample_rate, target_frequency, samples, g_pc, filter, pos, fed,
            mag, stateless>>

d_vars == <<file, tracks, default_track, d_pc, new_err, track_id, stream,
            blocks, ret>>

a_vars == <<a_pc, fft_source, ev_update_spectrum, last>>

b_vars == <<b_pc, b_source, b_config, window_size, width, height, row,
            key_states, image_data, origin, prev>>

h_vars == <<h_pc, h_sample_count, h_window>>

u_vars == <<u_pc, u_source, fft_config, ran, events, event_count,
            last_event_count, spectrum, rebuilt_for, lost, last_pass>>

vars == <<oc_vars, g_vars, d_vars, a_vars, b_vars, h_vars, u_vars>>

\* ------------------------------------------------------------------ bounds
MaxLen == 7         \* longest slice
MaxChunk == 4       \* largest chunk_size and overlap argument
MaxSamples == 3     \* longest sample sequence
MaxTracks == 2      \* most tracks in a container
MaxPackets == 3     \* most packets and read errors before the end of the stream
MaxBlocks == 3      \* most blocks a dropped file decodes to
MaxEvents == 2      \* most UpdateSpectrum events sent
MaxData == 5        \* longest source the spectrogram is built from
MaxKeys == 2        \* piano keys of the Goertzel bank (88 in the program)
MaxWindow == 16     \* largest sample_count of hann
FScale == 64        \* f32 grid: representable values are multiples of 1/FScale

\* ================================================================== overlap_chunks.rs

\* A sub-slice of `slice`: a start offset and a length (a Rust &[T] is a
\* pointer and a length).
SubSlice(off, len) == [off |-> off, len |-> len]

\* `&[]`
EmptySlice == SubSlice(0, 0)

\* The elements a sub-slice refers to.
Elems(s) == SubSeq(slice, s.off + 1, s.off + s.len)

\* OverlapChunks::new
OverlapChunks_new(v, cs, ov) ==
    [v |-> v, chunk_size |-> cs, next_chunk_offset |-> cs - ov]

\* Idle value of `iter` before overlap_chunks is called or after it panicked.
NoIter == OverlapChunks_new(EmptySlice, 0, 0)

\* Mutant of OverlapChunks::next: the iterator advances by chunk_size, so
\* consecutive chunks do not overlap.
OverlapChunks_next_NoOverlap(self) ==
    IF self.v.len = 0
    THEN [some |-> FALSE, chunk |-> EmptySlice, self |-> self]
    ELSE IF self.v.len <= self.chunk_size
    THEN [some |-> TRUE, chunk |-> self.v,
          self |-> [self EXCEPT !.v = EmptySlice]]
    ELSE [some |-> TRUE,
          chunk |-> SubSlice(self.v.off, self.chunk_size),
          self |-> [self EXCEPT !.v = SubSlice(self.v.off + self.chunk_size,
                                               self.v.len - self.chunk_size)]]

\* Mutant of OverlapChunks::next: `<` for `<=` in the remainder test, so a
\* tail of exactly chunk_size elements is followed by one more chunk.
OverlapChunks_next_StrictTail(self) ==
    IF self.v.len = 0
    THEN [some |-> FALSE, chunk |-> EmptySlice, self |-> self]
    ELSE IF self.v.len < self.chunk_size
    THEN [some |-> TRUE, chunk |-> self.v,
          self |-> [self EXCEPT !.v = EmptySlice]]
    ELSE [some |-> TRUE,
          chunk |-> SubSlice(self.v.off, self.chunk_size),
          self |-> [self EXCEPT !.v = SubSlice(self.v.off + self.next_chunk_offset,
                                               self.v.len - self.next_chunk_offset)]]

\* OverlapChunks::next: [some, chunk, self'] for the struct `self`.
OverlapChunks_next(self) ==
    IF self.v.len = 0
    THEN [some |-> FALSE, chunk |-> EmptySlice, self |-> self]
    ELSE IF self.v.len <= self.chunk_size
    THEN [some |-> TRUE, chunk |-> self.v,
          self |-> [self EXCEPT !.v = EmptySlice]]
    ELSE [some |-> TRUE,
          chunk |-> SubSlice(self.v.off, self.chunk_size),
          self |-> [self EXCEPT !.v = SubSlice(self.v.off + self.next_chunk_offset,
                                               self.v.len - self.next_chunk_offset)]]

\* usize::saturating_sub
saturating_sub(a, b) == IF a >= b THEN a - b ELSE 0

\* Mutant of OverlapChunks::size_hint: the remainder chunk is not counted.
OverlapChunks_size_hint_NoRemainder(self) ==
    IF self.v.len = 0
    THEN <<0, 0>>
    ELSE LET overlapped == saturating_sub(self.v.len, self.chunk_size)
             full_chunks == overlapped \div self.next_chunk_offset
         IN <<full_chunks + 1, full_chunks + 1>>

\* OverlapChunks::size_hint: <<lower, upper>>
OverlapChunks_size_hint(self) ==
    IF self.v.len = 0
    THEN <<0, 0>>
    ELSE LET overlapped == saturating_sub(self.v.len, self.chunk_size)
             full_chunks == overlapped \div self.next_chunk_offset
             remainder == overlapped % self.next_chunk_offset
         IN IF remainder = 0
            THEN <<full_chunks + 1, full_chunks + 1>>
            ELSE <<full_chunks + 2, full_chunks + 2>>

\* Mutant of the assert!: overlap == chunk_size is let through.
overlap_chunks_assert_AllowEqual(cs, ov) == ov <= cs

\* The assert! of <[T] as OverlapChunksExt>::overlap_chunks.
overlap_chunks_assert(cs, ov) == ov < cs

NoHint == [called |-> FALSE, after |-> 0, lower |-> 0, upper |-> 0]

\* slice.overlap_chunks(chunk_size, overlap): panics, or builds the iterator.
overlap_chunks ==
    /\ oc_pc = "start"
    /\ IF overlap_chunks_assert(chunk_size, overlap)
       THEN /\ iter' = OverlapChunks_new(SubSlice(0, Len(slice)), chunk_size, overlap)
            /\ oc_pc' = "iter"
       ELSE /\ iter' = NoIter
            /\ oc_pc' = "panicked"
    /\ UNCHANGED <<slice, chunk_size, overlap, chunks, hint>>
    /\ UNCHANGED <<g_vars, d_vars, a_vars, b_vars, h_vars, u_vars>>

\* iter.next()
next ==
    /\ oc_pc = "iter"
    /\ LET r == OverlapChunks_next(iter)
       IN /\ iter' = r.self
          /\ IF r.some
             THEN chunks' = Append(chunks, r.chunk) /\ oc_pc' = "iter"
             ELSE chunks' = chunks /\ oc_pc' = "done"
    /\ UNCHANGED <<slice, chunk_size, overlap, hint>>
    /\ UNCHANGED <<g_vars, d_vars, a_vars, b_vars, h_vars, u_vars>>

\* iter.size_hint()
size_hint ==
    /\ oc_pc = "iter"
    /\ LET h == OverlapChunks_size_hint(iter)
       IN hint' = [called |-> TRUE, after |-> Len(chunks),
                   lower |-> h[1], upper |-> h[2]]
    /\ UNCHANGED <<slice, chunk_size, overlap, oc_pc, iter, chunks>>
    /\ UNCHANGED <<g_vars, d_vars, a_vars, b_vars, h_vars, u_vars>>

RECURSIVE SeqsUpTo(_, _)
\* All sequences over S of length at most n.
SeqsUpTo(S, n) ==
    IF n = 0 THEN {<<>>}
    ELSE LET shorter == SeqsUpTo(S, n - 1)
         IN shorter \cup {Append(s, x) : s \in {t \in shorter : Len(t) = n - 1}, x \in S}

ChunksStart ==
    /\ slice \in SeqsUpTo({"l", "o"}, MaxLen)
    /\ chunk_size \in 0..MaxChunk
    /\ overlap \in 0..MaxChunk
    /\ oc_pc = "start"
    /\ iter = NoIter
    /\ chunks = <<>>
    /\ hint = NoHint

\* No slice, no iterator: the component is not in use.
ChunksIdle ==
    /\ slice = <<>>
    /\ chunk_size = 0
    /\ overlap = 0
    /\ oc_pc = "idle"
    /\ iter = NoIter
    /\ chunks = <<>>
    /\ hint = NoHint

NextChunks ==
    \/ overlap_chunks
    \/ next
    \/ size_hint

\* ================================================================== f32

\* An f32 is a finite value v / FScale, an infinity (v is its sign) or NaN.
\* Every operation rounds its exact result to the nearest representable
\* value, as IEEE-754 arithmetic does; -0.0 is not told apart from 0.0
\* (they compare equal in Rust).
Fin(v) == [k |-> "fin", v |-> v]
NaN == [k |-> "nan", v |-> 0]
Inf(sign) == [k |-> "inf", v |-> sign]

Sign(n) == IF n < 0 THEN -1 ELSE 1

\* a / b rounded to the nearest integer, b > 0.
RoundDiv(a, b) == (2 * a + b) \div (2 * b)

\* x + y
FAdd(x, y) ==
    IF x.k = "nan" \/ y.k = "nan" THEN NaN
    ELSE IF x.k = "fin" /\ y.k = "fin" THEN Fin(x.v + y.v)
    ELSE IF y.k = "fin" THEN x
    ELSE IF x.k = "fin" THEN y
    ELSE IF x.v = y.v THEN x
    ELSE NaN

\* -x
FNeg(x) == [x EXCEPT !.v = -x.v]

\* x - y
FSub(x, y) == FAdd(x, FNeg(y))

\* x * y
FMul(x, y) ==
    IF x.k = "nan" \/ y.k = "nan" THEN NaN
    ELSE IF x.k = "fin" /\ y.k = "fin" THEN Fin(RoundDiv(x.v * y.v, FScale))
    ELSE IF x.v = 0 \/ y.v = 0 THEN NaN
    ELSE Inf(Sign(x.v) * Sign(y.v))

\* x / y
FDiv(x, y) ==
    IF x.k = "nan" \/ y.k = "nan" THEN NaN
    ELSE IF x.k = "fin" /\ y.k = "fin"
    THEN IF y.v = 0
         THEN IF x.v = 0 THEN NaN ELSE Inf(Sign(x.v))
         ELSE Fin(RoundDiv(Sign(y.v) * x.v * FScale, Sign(y.v) * y.v))
    ELSE IF x.k = "inf" /\ y.k = "inf" THEN NaN
    ELSE IF x.k = "inf" THEN Inf(Sign(x.v) * Sign(y.v))
    ELSE Fin(0)

RECURSIVE SqrtSearch(_, _, _)
\* The largest r in lo..hi with r * r <= n.
SqrtSearch(n, lo, hi) ==
    IF lo >= hi THEN lo
    ELSE LET mid == (lo + hi + 1) \div 2
         IN IF mid * mid <= n THEN SqrtSearch(n, mid, hi)
            ELSE SqrtSearch(n, lo, mid - 1)

\* The integer nearest to the square root of n >= 0.
ISqrt(n) ==
    LET r == SqrtSearch(n, 0, IF n > 46340 THEN 46340 ELSE n)
    IN IF n - r * r > r THEN r + 1 ELSE r

\* f32::sqrt: NaN for a negative argument.
FSqrt(x) ==
    IF x.k = "nan" THEN NaN
    ELSE IF x.k = "inf" THEN (IF x.v > 0 THEN x ELSE NaN)
    ELSE IF x.v < 0 THEN NaN
    ELSE Fin(ISqrt(x.v * FScale))

\* std::f32::consts::PI
PI == Fin(RoundDiv(355 * FScale, 113))

RECURSIVE CosSeries(_, _, _, _)
\* The Taylor series of the cosine from its i-th term on: term is the
\* (i-1)-th term, w2 the squared argument, sum the terms added so far.
CosSeries(w2, term, i, sum) ==
    IF i > 7 THEN sum
    ELSE LET t == -RoundDiv(term * w2, FScale * (2 * i - 1) * (2 * i))
         IN CosSeries(w2, t, i + 1, sum + t)

\* f32::cos: the argument reduced to [-pi, pi), then the series; NaN for a
\* non-finite argument.
FCos(x) ==
    IF x.k # "fin" THEN NaN
    ELSE LET r == ((x.v + PI.v) % (2 * PI.v)) - PI.v
             w2 == RoundDiv(r * r, FScale)
         IN Fin(CosSeries(w2, FScale, 1, FScale))

\* `n as f32` for a u32 or usize n
as_f32(n) == Fin(n * FScale)

\* ================================================================== goertzel.rs

RECURSIVE goertzel_loop(_, _, _, _, _)
\* The for loop of goertzel() from the i-th sample on: <<q1, q2>> at its end.
goertzel_loop(smp, i, q1, q2, coeff) ==
    IF i > Len(smp) THEN <<q1, q2>>
    ELSE LET q0 == FSub(FAdd(smp[i], FMul(coeff, q1)), q2)
         IN goertzel_loop(smp, i + 1, q0, q1, coeff)

\* The coefficient goertzel() computes first.
goertzel_coeff(rate, freq) ==
    LET k == FDiv(freq, as_f32(rate))
        w == FMul(FMul(Fin(2 * FScale), PI), k)
    IN FMul(Fin(2 * FScale), FCos(w))

\* goertzel(samples, sample_rate, target_frequency)
goertzel(smp, rate, freq) ==
    LET coeff == goertzel_coeff(rate, freq)
        q == goertzel_loop(smp, 1, Fin(0), Fin(0), coeff)
        q1 == q[1]
        q2 == q[2]
        magnitude == FSqrt(FSub(FAdd(FMul(q1, q1), FMul(q2, q2)),
                                FMul(FMul(q1, q2), coeff)))
        normalized_magnitude ==
            FDiv(FMul(Fin(2 * FScale), magnitude), as_f32(Len(smp)))
    IN normalized_magnitude

\* Goertzel::new
Goertzel_new(rate, freq) ==
    LET k == FDiv(freq, as_f32(rate))
        w == FMul(FMul(Fin(2 * FScale), PI), k)
        coeff == FMul(Fin(2 * FScale), FCos(w))
    IN [q0 |-> Fin(0), q1 |-> Fin(0), q2 |-> Fin(0), coeff |-> coeff]

\* Mutant of Goertzel::process: q1 is overwritten before it is saved to q2.
Goertzel_process_LostQ1(self, sample) ==
    LET q0 == FSub(FAdd(sample, FMul(self.coeff, self.q1)), self.q2)
    IN [self EXCEPT !.q0 = q0, !.q1 = q0, !.q2 = q0]

\* Goertzel::process
Goertzel_process(self, sample) ==
    LET q0 == FSub(FAdd(sample, FMul(self.coeff, self.q1)), self.q2)
    IN [self EXCEPT !.q0 = q0, !.q2 = self.q1, !.q1 = q0]

\* Mutant of Goertzel::magnitude: normalised by block_size - 1.
Goertzel_magnitude_OffByOne(self, block_size) ==
    LET magnitude ==
            FSqrt(FSub(FAdd(FMul(self.q1, self.q1), FMul(self.q2, self.q2)),
                       FMul(FMul(self.q1, self.q2), self.coeff)))
        normalized_magnitude ==
            FDiv(FMul(Fin(2 * FScale), magnitude), as_f32(block_size - 1))
    IN normalized_magnitude

\* Goertzel::magnitude
Goertzel_magnitude(self, block_size) ==
    LET magnitude ==
            FSqrt(FSub(FAdd(FMul(self.q1, self.q1), FMul(self.q2, self.q2)),
                       FMul(FMul(self.q1, self.q2), self.coeff)))
        normalized_magnitude ==
            FDiv(FMul(Fin(2 * FScale), magnitude), as_f32(block_size))
    IN normalized_magnitude

\* Mutant of Goertzel::reset: q1 and q2 are left as they are.
Goertzel_reset_KeepsState(self) == [self EXCEPT !.q0 = Fin(0)]

\* Goertzel::reset
Goertzel_reset(self) ==
    [self EXCEPT !.q0 = Fin(0), !.q1 = Fin(0), !.q2 = Fin(0)]

NoFilter == [q0 |-> Fin(0), q1 |-> Fin(0), q2 |-> Fin(0), coeff |-> Fin(0)]
NoMag == [called |-> FALSE, block_size |-> 0, from |-> 0, fed |-> 0,
          value |-> Fin(0)]
NoStateless == [called |-> FALSE, value |-> Fin(0)]

\* Goertzel::new(sample_rate, target_frequency)
new ==
    /\ g_pc = "start"
    /\ filter' = Goertzel_new(sample_rate, target_frequency)
    /\ g_pc' = "ready"
    /\ UNCHANGED <<sample_rate, target_frequency, samples, pos, fed, mag, stateless>>
    /\ UNCHANGED <<oc_vars, d_vars, a_vars, b_vars, h_vars, u_vars>>

\* filter.process(sample) with the next sample of the input
process ==
    /\ g_pc = "ready"
    /\ pos < Len(samples)
    /\ filter' = Goertzel_process(filter, samples[pos + 1])
    /\ pos' = pos + 1
    /\ fed' = fed + 1
    /\ mag' = NoMag
    /\ UNCHANGED <<sample_rate, target_frequency, samples, g_pc, stateless>>
    /\ UNCHANGED <<oc_vars, d_vars, a_vars, b_vars, h_vars, u_vars>>

\* filter.magnitude(block_size); the callers pass the length of the block
\* fed since new() or reset(), or the length of the full window it is part of.
magnitude ==
    /\ g_pc = "ready"
    /\ \E block_size \in {fed, MaxSamples} :
          mag' = [called |-> TRUE, block_size |-> block_size,
                  from |-> pos - fed, fed |-> fed,
                  value |-> Goertzel_magnitude(filter, block_size)]
    /\ UNCHANGED <<sample_rate, target_frequency, samples, g_pc, filter, pos, fed,
                   stateless>>
    /\ UNCHANGED <<oc_vars, d_vars, a_vars, b_vars, h_vars, u_vars>>

\* filter.reset()
reset ==
    /\ g_pc = "ready"
    /\ filter' = Goertzel_reset(filter)
    /\ fed' = 0
    /\ mag' = NoMag
    /\ UNCHANGED <<sample_rate, target_frequency, samples, g_pc, pos, stateless>>
    /\ UNCHANGED <<oc_vars, d_vars, a_vars, b_vars, h_vars, u_vars>>

\* goertzel(&samples, sample_rate, target_frequency)
goertzel_call ==
    /\ g_pc \in {"start", "ready"}
    /\ stateless' = [called |-> TRUE,
                     value |-> goertzel(samples, sample_rate, target_frequency)]
    /\ UNCHANGED <<sample_rate, target_frequency, samples, g_pc, filter, pos, fed, mag>>
    /\ UNCHANGED <<oc_vars, d_vars, a_vars, b_vars, h_vars, u_vars>>

\* The sample values, sample rates and target frequencies tried.
SampleValues == {Fin(0), Fin(FScale), Fin(-(FScale \div 2))}
SampleRates == {4, 8}
TargetFrequencies == {Fin(FScale), Fin(3 * FScale)}

GoertzelStart ==
    /\ sample_rate \in SampleRates
    /\ target_frequency \in TargetFrequencies
    /\ samples \in SeqsUpTo(SampleValues, MaxSamples)
    /\ g_pc = "start"
    /\ filter = NoFilter
    /\ pos = 0
    /\ fed = 0
    /\ mag = NoMag
    /\ stateless = NoStateless

\* No filter, no samples: the component is not in use.
GoertzelIdle ==
    /\ sample_rate = 1
    /\ target_frequency = Fin(0)
    /\ samples = <<>>
    /\ g_pc = "idle"
    /\ filter = NoFilter
    /\ pos = 0
    /\ fed = 0
    /\ mag = NoMag
    /\ stateless = NoStateless

NextGoertzel ==
    \/ new
    \/ process
    \/ magnitude
    \/ reset
    \/ goertzel_call

\* ================================================================== audio.rs

\* CODEC_REGISTRY: the codecs of symphonia's default set (here "pcm") and Opus.
CODEC_REGISTRY == {"pcm", "opus"}

\* CODEC_REGISTRY.make(&track.codec_params, ..).ok(): a decoder (here, its
\* presence) for a registered codec, None otherwise.
make(track) == track.codec \in CODEC_REGISTRY

\* Mutant of the candidate order: the default track is not tried first.
candidates_NoDefault(trks, dflt) == trks

\* std::iter::once(format.default_track()).flatten().chain(format.tracks().iter())
candidates(trks, dflt) ==
    (IF dflt = 0 THEN <<>> ELSE <<trks[dflt]>>) \o trks

RECURSIVE find_map(_, _)
\* Iterator::find_map over the candidates from the i-th on: the id of the
\* first track a decoder can be made for, as [some, track_id].
find_map(cands, i) ==
    IF i > Len(cands) THEN [some |-> FALSE, track_id |-> 0]
    ELSE IF make(cands[i]) THEN [some |-> TRUE, track_id |-> cands[i].id]
    ELSE find_map(cands, i + 1)

\* Decoder::new: [ok, err, track_id]
Decoder_new(f, trks, dflt) ==
    IF f = "missing"
    THEN [ok |-> FALSE, err |-> "failed to open media", track_id |-> 0]
    ELSE IF f = "unknown"
    THEN [ok |-> FALSE, err |-> "unsupported format", track_id |-> 0]
    ELSE LET found == find_map(candidates(trks, dflt), 1)
         IN IF found.some
            THEN [ok |-> TRUE, err |-> "", track_id |-> found.track_id]
            ELSE [ok |-> FALSE, err |-> "no compatible track found", track_id |-> 0]

\* Mutant of the loop body of decode: the track filter is missing.
decode_body_NoTrackFilter(tid, read) ==
    IF read.kind = "err" THEN "break None"
    ELSE IF read.corrupt THEN "continue"
    ELSE "break Some"

\* Mutant of the loop body of decode: a failed read is retried.
decode_body_RetryRead(tid, read) ==
    IF read.kind = "err" THEN "continue"
    ELSE IF read.track_id # tid THEN "continue"
    ELSE IF read.corrupt THEN "continue"
    ELSE "break Some"

\* One iteration of the loop of Decoder::decode, given what next_packet
\* returned: what the iteration ends in.
decode_body(tid, read) ==
    IF read.kind = "err" THEN "break None"
    ELSE IF read.track_id # tid THEN "continue"
    ELSE IF read.corrupt THEN "continue"
    ELSE "break Some"

\* What next_packet can return: while the stream has packets left, an error
\* (an I/O error, a reset request) or the next packet, of any track of the
\* container; only packets of the selected track are handed to the codec,
\* which fails on the corrupt ones.  At the end of the stream, an error.
NextPacketResults ==
    IF Len(stream) >= MaxPackets
    THEN {[kind |-> "eof", track_id |-> 0, corrupt |-> FALSE]}
    ELSE {[kind |-> "err", track_id |-> 0, corrupt |-> FALSE]}
         \cup {[kind |-> "packet", track_id |-> tracks[i].id, corrupt |-> FALSE] :
                 i \in 1..Len(tracks)}
         \cup {[kind |-> "packet", track_id |-> track_id, corrupt |-> TRUE]}

NoRet == [called |-> FALSE, some |-> FALSE, block |-> 0, first |-> 0, read |-> "none"]

\* audio::Decoder::new(path)
Decoder_new_call ==
    /\ d_pc = "start"
    /\ LET r == Decoder_new(file, tracks, default_track)
       IN /\ d_pc' = IF r.ok THEN "idle" ELSE "failed"
          /\ new_err' = r.err
          /\ track_id' = r.track_id
    /\ UNCHANGED <<file, tracks, default_track, stream, blocks, ret>>
    /\ UNCHANGED <<oc_vars, g_vars, a_vars, b_vars, h_vars, u_vars>>

\* decoder.decode() is called: the loop is entered.
decode ==
    /\ d_pc = "idle"
    /\ d_pc' = "loop"
    /\ ret' = [NoRet EXCEPT !.first = Len(stream) + 1]
    /\ UNCHANGED <<file, tracks, default_track, new_err, track_id, stream, blocks>>
    /\ UNCHANGED <<oc_vars, g_vars, a_vars, b_vars, h_vars, u_vars>>

\* One iteration of the loop of decode(): next_packet, the track filter,
\* the codec's decode, and the break or continue.
decode_loop ==
    /\ d_pc = "loop"
    /\ \E read \in NextPacketResults :
          LET end == decode_body(track_id, IF read.kind = "eof"
                                           THEN [read EXCEPT !.kind = "err"]
                                           ELSE read)
              stream1 == IF read.kind = "eof" THEN stream ELSE Append(stream, read)
          IN /\ stream' = stream1
             /\ IF end = "break Some"
                THEN /\ blocks' = Append(blocks, Len(stream1))
                     /\ ret' = [ret EXCEPT !.called = TRUE, !.some = TRUE,
                                           !.block = Len(stream1), !.read = read.kind]
                     /\ d_pc' = "idle"
                ELSE IF end = "break None"
                THEN /\ blocks' = blocks
                     /\ ret' = [ret EXCEPT !.called = TRUE, !.some = FALSE,
                                           !.block = 0, !.read = read.kind]
                     /\ d_pc' = "idle"
                ELSE /\ blocks' = blocks
                     /\ ret' = [ret EXCEPT !.read = read.kind]
                     /\ d_pc' = "loop"
    /\ UNCHANGED <<file, tracks, default_track, new_err, track_id>>
    /\ UNCHANGED <<oc_vars, g_vars, a_vars, b_vars, h_vars, u_vars>>

\* The codecs of the tracks tried: one the registry has, one it has not.
Codecs == {"opus", "unknown"}

\* The containers tried: at most MaxTracks tracks with distinct ids.
TrackLists ==
    {t \in SeqsUpTo([id : 1..MaxTracks, codec : Codecs], MaxTracks) :
        \A i, j \in 1..Len(t) : i # j => t[i].id # t[j].id}

DecoderStart ==
    /\ file \in {"missing", "unknown", "media"}
    /\ IF file = "media"
       THEN /\ tracks \in TrackLists
            /\ default_track \in 0..Len(tracks)
       ELSE /\ tracks = <<>>
            /\ default_track = 0
    /\ d_pc = "start"
    /\ new_err = ""
    /\ track_id = 0
    /\ stream = <<>>
    /\ blocks = <<>>
    /\ ret = NoRet

\* No file, no decoder: the component is not in use.
DecoderIdle ==
    /\ file = "missing"
    /\ tracks = <<>>
    /\ default_track = 0
    /\ d_pc = "unused"
    /\ new_err = ""
    /\ track_id = 0
    /\ stream = <<>>
    /\ blocks = <<>>
    /\ ret = NoRet

NextDecoder ==
    \/ Decoder_new_call
    \/ decode
    \/ decode_loop

\* ================================================================== main.rs: file_drop, play_note

\* FftSource::default()
FftSource_default == [name |-> "", sample_rate |-> 48000, data |-> <<>>]

\* fft_source.data is kept as the sequence of the pieces it was appended
\* from, each a number of frames; data.len() is their sum.
RECURSIVE DataLen(_)
DataLen(data) ==
    IF data = <<>> THEN 0
    ELSE DataLen(SubSeq(data, 1, Len(data) - 1)) + data[Len(data)]

\* let samples_to_take = fft_source.sample_rate as usize * 120
samples_to_take(rate) == rate * 120

RECURSIVE file_drop_while(_, _, _, _)
\* The `while let Some(audio_buf) = decoder.decode()` loop of file_drop
\* from the i-th decoded block on: the data at its end and how it ended
\* ("none": decode() returned None, "break", or "return" on a block that is
\* not AudioBufferRef::F32).
file_drop_while(data, decoded, i, cap) ==
    IF i > Len(decoded) THEN [data |-> data, end |-> "none"]
    ELSE IF decoded[i].format # "F32" THEN [data |-> data, end |-> "return"]
    ELSE IF DataLen(data) + decoded[i].frames > cap
    THEN [data |-> data, end |-> "break"]
    ELSE file_drop_while(Append(data, decoded[i].frames), decoded, i + 1, cap)

\* Mutant of the Ok arm of file_drop: data.clear() is missing.
file_drop_Ok_NoClear(source, name, rate, decoded) ==
    LET r == file_drop_while(source.data, decoded, 1, samples_to_take(rate))
    IN [source |-> [name |-> name, sample_rate |-> rate, data |-> r.data],
        send |-> r.end # "return"]

\* The Ok(mut decoder) arm of file_drop: the source it leaves and whether
\* UpdateSpectrum is sent.
file_drop_Ok(source, name, rate, decoded) ==
    LET r == file_drop_while(<<>>, decoded, 1, samples_to_take(rate))
    IN [source |-> [name |-> name, sample_rate |-> rate, data |-> r.data],
        send |-> r.end # "return"]

\* The body of the `for ev in ev_play_note.read()` loop of play_note: the
\* source it leaves.  The buffer is resized to samples_to_take and every
\* sample overwritten.
play_note_body(source, freq) ==
    [name |-> freq, sample_rate |-> 48000,
     data |-> <<samples_to_take(48000)>>]

NoLast == [op |-> "none", outcome |-> "none", before |-> FftSource_default,
           sent_before |-> 0, stream_frames |-> 0]

\* The files dropped: what is at the path, as Decoder::new sees it.
DroppedFiles ==
    {[file |-> "missing", tracks |-> <<>>, default_track |-> 0],
     [file |-> "unknown", tracks |-> <<>>, default_track |-> 0],
     [file |-> "media", default_track |-> 0,
      tracks |-> <<[id |-> 1, codec |-> "unknown"]>>],
     [file |-> "media", default_track |-> 1,
      tracks |-> <<[id |-> 1, codec |-> "opus"]>>]}

\* The sample rates decoder.sample_rate() reports.
FileRates == {1, 2}

\* The blocks decoder.decode() returns: a sample format and a frame count.
DecodedBlocks ==
    [format : {"F32"}, frames : {60, 100}] \cup {[format |-> "S16", frames |-> 60]}

\* What the successive calls of decoder.decode() return before None.
DecodedStreams == SeqsUpTo(DecodedBlocks, MaxBlocks)

\* file_drop, for one FileDragAndDrop::DroppedFile event.
file_drop ==
    /\ a_pc = "run"
    /\ ev_update_spectrum < MaxEvents
    /\ \E f \in DroppedFiles :
          IF Decoder_new(f.file, f.tracks, f.default_track).ok
          THEN \E rate \in FileRates, decoded \in DecodedStreams :
                  LET r == file_drop_Ok(fft_source, "a.flac", rate, decoded)
                  IN /\ fft_source' = r.source
                     /\ ev_update_spectrum' =
                            ev_update_spectrum + (IF r.send THEN 1 ELSE 0)
                     /\ last' = [op |-> "file_drop",
                                 outcome |-> IF r.send THEN "ok" ELSE "not f32",
                                 before |-> fft_source,
                                 sent_before |-> ev_update_spectrum,
                                 stream_frames |->
                                     DataLen([i \in 1..Len(decoded) |->
                                                 decoded[i].frames])]
          ELSE /\ fft_source' = fft_source
               /\ ev_update_spectrum' = ev_update_spectrum
               /\ last' = [op |-> "file_drop", outcome |-> "open failed",
                           before |-> fft_source,
                           sent_before |-> ev_update_spectrum,
                           stream_frames |-> 0]
    /\ UNCHANGED a_pc
    /\ UNCHANGED <<oc_vars, g_vars, d_vars, b_vars, h_vars, u_vars>>

\* play_note, for one PlayNote event.
play_note ==
    /\ a_pc = "run"
    /\ ev_update_spectrum < MaxEvents
    /\ \E freq \in {"Note: 440.00 Hz", "Note: 27.50 Hz"} :
          fft_source' = play_note_body(fft_source, freq)
    /\ ev_update_spectrum' = ev_update_spectrum + 1
    /\ last' = [op |-> "play_note", outcome |-> "ok", before |-> fft_source,
                sent_before |-> ev_update_spectrum, stream_frames |-> 0]
    /\ UNCHANGED a_pc
    /\ UNCHANGED <<oc_vars, g_vars, d_vars, b_vars, h_vars, u_vars>>

\* init_resource::<FftSource>(), no event sent yet.
AppStart ==
    /\ a_pc = "run"
    /\ fft_source = FftSource_default
    /\ ev_update_spectrum = 0
    /\ last = NoLast

\* The application is not running.
AppIdle ==
    /\ a_pc = "unused"
    /\ fft_source = FftSource_default
    /\ ev_update_spectrum = 0
    /\ last = NoLast

NextApp ==
    \/ file_drop
    \/ play_note

\* ================================================================== main.rs: build_spectrum_fft, build_spectrum_goertzel

\* f32::max, f32::min: the other operand if one is NaN.
FMax(x, y) ==
    IF x.k = "nan" THEN y
    ELSE IF y.k = "nan" THEN x
    ELSE IF x.k = "inf" THEN (IF x.v > 0 THEN x ELSE y)
    ELSE IF y.k = "inf" THEN (IF y.v > 0 THEN y ELSE x)
    ELSE IF x.v >= y.v THEN x ELSE y

FMin(x, y) ==
    IF x.k = "nan" THEN y
    ELSE IF y.k = "nan" THEN x
    ELSE IF x.k = "inf" THEN (IF x.v > 0 THEN y ELSE x)
    ELSE IF y.k = "inf" THEN (IF y.v > 0 THEN x ELSE y)
    ELSE IF x.v <= y.v THEN x ELSE y

RECURSIVE SinSeries(_, _, _, _)
\* The Taylor series of the sine from its i-th term on.
SinSeries(w2, term, i, sum) ==
    IF i > 7 THEN sum
    ELSE LET t == -RoundDiv(term * w2, FScale * (2 * i) * (2 * i + 1))
         IN SinSeries(w2, t, i + 1, sum + t)

\* f32::sin, as FCos.
FSin(x) ==
    IF x.k # "fin" THEN NaN
    ELSE LET r == ((x.v + PI.v) % (2 * PI.v)) - PI.v
             w2 == RoundDiv(r * r, FScale)
         IN Fin(SinSeries(w2, r, 1, r))

RECURSIVE Log2Floor(_)
\* The largest k with 2^k * FScale <= v, for v >= FScale.
Log2Floor(v) == IF v < 2 * FScale THEN 0 ELSE 1 + Log2Floor(v \div 2)

RECURSIVE Pow2(_)
Pow2(k) == IF k = 0 THEN 1 ELSE 2 * Pow2(k - 1)

\* The natural logarithm of m / FScale for m in FScale..2*FScale, times
\* FScale: 2 * atanh((m - FScale) / (m + FScale)) by its series.
LnMantissa(m) ==
    LET z == RoundDiv((m - FScale) * FScale, m + FScale)
        z2 == RoundDiv(z * z, FScale)
        z3 == RoundDiv(z * z2, FScale)
        z5 == RoundDiv(z3 * z2, FScale)
        z7 == RoundDiv(z5 * z2, FScale)
    IN 2 * z + RoundDiv(2 * z3, 3) + RoundDiv(2 * z5, 5) + RoundDiv(2 * z7, 7)

\* f32::log10: -inf for 0, NaN for a negative argument; a value below 1
\* has the negated logarithm of its reciprocal.
FLog10(x) ==
    IF x.k = "nan" THEN NaN
    ELSE IF x.k = "inf" THEN (IF x.v > 0 THEN x ELSE NaN)
    ELSE IF x.v < 0 THEN NaN
    ELSE IF x.v = 0 THEN Inf(-1)
    ELSE LET up == x.v >= FScale
             v == IF up THEN x.v ELSE RoundDiv(FScale * FScale, x.v)
             k == Log2Floor(v)
             ln == k * RoundDiv(693147 * FScale, 1000000)
                       + LnMantissa(RoundDiv(v, Pow2(k)))
             lg == RoundDiv(ln * 1000000, 2302585)
         IN Fin(IF up THEN lg ELSE -lg)

\* `x as usize`, `x as u32` for an f32 x: truncation towards zero,
\* saturating, 0 for NaN.
as_usize(x) ==
    IF x.k = "nan" THEN 0
    ELSE IF x.k = "inf" THEN (IF x.v > 0 THEN 2147483647 ELSE 0)
    ELSE IF x.v < 0 THEN 0
    ELSE x.v \div FScale

\* `x as u8` for an f32 x
as_u8(x) == IF as_usize(x) > 255 THEN 255 ELSE as_usize(x)

\* const MAX_FREQ: f32 = 4186.01 Hz, the highest piano note, at the scale
\* of the sample rates tried here: 2 Hz.
MAX_FREQ == Fin(2 * FScale)

\* Mutant of the window size: the quotient is rounded to the nearest integer.
fft_window_size_Rounded(source, config) ==
    LET q == FDiv(as_f32(source.sample_rate), config.resolution_hz)
    IN as_usize(FAdd(q, Fin(FScale \div 2)))

\* (source.sample_rate as f32 / config.resolution_hz as f32) as usize
fft_window_size(source, config) ==
    as_usize(FDiv(as_f32(source.sample_rate), config.resolution_hz))

\* 1 + (MAX_FREQ / source.sample_rate as f32 * fft_window_size as f32) as u32
bins_to_take(source, ws) ==
    1 + as_usize(FMul(FDiv(MAX_FREQ, as_f32(source.sample_rate)), as_f32(ws)))

\* source.sample_rate * config.duration_sec / fft_window_size as u32, for a
\* window size that is not 0 (the division panics on 0).
spectrum_rows(source, config, ws) ==
    (source.sample_rate * config.duration_sec) \div ws

RECURSIVE DftSum(_, _, _, _, _)
\* Bin k of the discrete Fourier transform of `input` from sample n on,
\* added to acc = <<re, im>>.
DftSum(input, k, n, re, im) ==
    IF n > Len(input) THEN <<re, im>>
    ELSE LET w == Fin(RoundDiv(2 * PI.v * k * (n - 1), Len(input)))
         IN DftSum(input, k, n + 1,
                   FAdd(re, FMul(input[n], FCos(w))),
                   FSub(im, FMul(input[n], FSin(w))))

\* r2c.process_with_scratch(input, output, scratch): the len/2 + 1 bins of
\* the forward transform of a real input.
r2c_process(input) ==
    [k \in 1..(Len(input) \div 2 + 1) |-> DftSum(input, k - 1, 1, Fin(0), Fin(0))]

\* value.norm() and its conversion to a byte: 0..60 dB on 0..255.
fft_byte(value) ==
    LET s0 == FSqrt(FAdd(FMul(value[1], value[1]), FMul(value[2], value[2])))
        s1 == FMax(s0, Fin(0))      \* s.max(1e-10): 1e-10 is 0 on the grid
        s2 == FMin(FDiv(FLog10(s1), Fin(3 * FScale)), Fin(FScale))
    IN as_u8(FMul(s2, Fin(255 * FScale)))

\* The bytes one window of the Fourier path pushes:
\* output_buf.iter().take(bins_to_take).
fft_row_bytes(input, bins) ==
    LET output == r2c_process(input)
    IN [i \in 1..(IF bins < Len(output) THEN bins ELSE Len(output)) |->
            fft_byte(output[i])]

\* The frequency of a piano key: 440 * 2^((key - 48) / 12) Hz for the 88
\* keys, at the scale of the sample rates tried here: 1 Hz, 2 Hz, ...
key_frequency(key) == Fin((key + 1) * FScale)

\* (0..88).map(key frequency).map(Goertzel::new).collect()
key_states_new(source) ==
    [key \in 1..MaxKeys |-> Goertzel_new(source.sample_rate, key_frequency(key - 1))]

\* width: 88 * 3 + 5
goertzel_width == MaxKeys * 3 + 5

RECURSIVE goertzel_feed(_, _, _)
\* for sample in chunk { for state in key_states { state.process(sample) } }
\* from the i-th sample on.
goertzel_feed(states, chunk, i) ==
    IF i > Len(chunk) THEN states
    ELSE goertzel_feed([key \in 1..Len(states) |->
                            Goertzel_process(states[key], chunk[i])],
                       chunk, i + 1)

\* The byte of one key: (state.magnitude(window_size).sqrt() * 255.0) as u8
goertzel_byte(state, ws) ==
    as_u8(FMul(FSqrt(Goertzel_magnitude(state, ws)), Fin(255 * FScale)))

RECURSIVE goertzel_key_bytes(_, _, _)
\* Three bytes for each key from the key-th on.
goertzel_key_bytes(states, ws, key) ==
    IF key > Len(states) THEN <<>>
    ELSE LET s == goertzel_byte(states[key], ws)
         IN <<s, s, s>> \o goertzel_key_bytes(states, ws, key + 1)

\* The bytes one chunk of the Goertzel path pushes, once the chunk is fed.
goertzel_row_bytes(states, ws) ==
    <<0, 0>> \o goertzel_key_bytes(states, ws, 1) \o <<0, 0, 0>>

\* image.data.resize(image.data.capacity(), 0)
resize(data, new_len, value) ==
    IF Len(data) >= new_len THEN SubSeq(data, 1, new_len)
    ELSE data \o [i \in 1..(new_len - Len(data)) |-> value]

\* Mutant of the new image buffer: the buffer of the last build is reused
\* as it is.
new_image_data_Reused == image_data

\* data: Vec::with_capacity(..): a new, empty vector.
new_image_data == <<>>

NoPrev == [built |-> FALSE, width |-> 0, height |-> 0, data |-> <<>>]

\* Vec::with_capacity(width * height) and what capacity() returns at the
\* end: the capacity asked for, unless more was pushed.
image_capacity(data, w, h) == IF Len(data) <= w * h THEN w * h ELSE Len(data)

\* build_spectrum_fft up to its loop: the window size, the image size and
\* the buffers; the division by a window size of 0 panics.
build_spectrum_fft ==
    /\ b_pc = "start"
    /\ b_config.algorithm = "Fft"
    /\ LET ws == fft_window_size(b_source, b_config)
       IN IF ws = 0
          THEN /\ b_pc' = "panicked"
               /\ UNCHANGED <<window_size, width, height>>
          ELSE /\ b_pc' = "fft"
               /\ window_size' = ws
               /\ width' = bins_to_take(b_source, ws)
               /\ height' = spectrum_rows(b_source, b_config, ws)
    /\ row' = 0
    /\ key_states' = <<>>
    /\ image_data' = new_image_data
    /\ origin' = <<>>
    /\ UNCHANGED <<b_source, b_config, prev>>
    /\ UNCHANGED <<oc_vars, g_vars, d_vars, a_vars, h_vars, u_vars>>

\* One iteration of the loop of build_spectrum_fft; at the end of the loop
\* or at its break, the resize and the return of the image.
fft_row ==
    /\ b_pc = "fft"
    /\ LET start == row * window_size
       IN IF row >= height \/ start + window_size > Len(b_source.data)
          THEN /\ image_data' =
                      resize(image_data, image_capacity(image_data, width, height), 0)
               /\ origin' =
                      resize(origin, image_capacity(image_data, width, height), -1)
               /\ row' = row
               /\ b_pc' = "done"
          ELSE LET input == SubSeq(b_source.data, start + 1, start + window_size)
                   bytes == fft_row_bytes(input, width)
               IN /\ image_data' = image_data \o bytes
                  /\ origin' = origin \o [i \in 1..Len(bytes) |-> row]
                  /\ row' = row + 1
                  /\ b_pc' = "fft"
    /\ UNCHANGED <<b_source, b_config, window_size, width, height, key_states,
                   prev>>
    /\ UNCHANGED <<oc_vars, g_vars, d_vars, a_vars, h_vars, u_vars>>

\* build_spectrum_goertzel up to its loop: the window size, the image
\* size and the filter bank; the division by a window size of 0 panics.
build_spectrum_goertzel ==
    /\ b_pc = "start"
    /\ b_config.algorithm = "Goertzel"
    /\ LET ws == fft_window_size(b_source, b_config)
       IN IF ws = 0
          THEN /\ b_pc' = "panicked"
               /\ key_states' = <<>>
               /\ UNCHANGED <<window_size, width, height>>
          ELSE /\ b_pc' = "goertzel"
               /\ window_size' = ws
               /\ width' = goertzel_width
               /\ height' = spectrum_rows(b_source, b_config, ws)
               /\ key_states' = key_states_new(b_source)
    /\ row' = 0
    /\ image_data' = new_image_data
    /\ origin' = <<>>
    /\ UNCHANGED <<b_source, b_config, prev>>
    /\ UNCHANGED <<oc_vars, g_vars, d_vars, a_vars, h_vars, u_vars>>

\* One iteration of the loop of build_spectrum_goertzel over
\* source.data.chunks(window_size).take(spectrum_rows); when the chunks are
\* used up, the resize and the return of the image.
goertzel_row ==
    /\ b_pc = "goertzel"
    /\ LET start == row * window_size
           n == Len(b_source.data)
       IN IF row >= height \/ start >= n
          THEN /\ image_data' =
                      resize(image_data, image_capacity(image_data, width, height), 0)
               /\ origin' =
                      resize(origin, image_capacity(image_data, width, height), -1)
               /\ row' = row
               /\ key_states' = key_states
               /\ b_pc' = "done"
          ELSE LET end == IF start + window_size < n THEN start + window_size ELSE n
                   chunk == SubSeq(b_source.data, start + 1, end)
                   fed_states == goertzel_feed(key_states, chunk, 1)
                   bytes == goertzel_row_bytes(fed_states, window_size)
               IN /\ image_data' = image_data \o bytes
                  /\ origin' = origin \o [i \in 1..Len(bytes) |-> row]
                  /\ key_states' = [key \in 1..Len(fed_states) |->
                                        Goertzel_reset(fed_states[key])]
                  /\ row' = row + 1
                  /\ b_pc' = "goertzel"
    /\ UNCHANGED <<b_source, b_config, window_size, width, height, prev>>
    /\ UNCHANGED <<oc_vars, g_vars, d_vars, a_vars, h_vars, u_vars>>

\* update_spectrum reads one more UpdateSpectrum event while the source and
\* the config are what they were: the image is built again.  The locals of
\* the last build are dead, whatever they hold.
rebuild ==
    /\ b_pc = "done"
    /\ ~prev.built
    /\ prev' = [built |-> TRUE, width |-> width, height |-> height,
                data |-> image_data]
    /\ b_pc' = "start"
    /\ UNCHANGED <<b_source, b_config, window_size, width, height, row,
                   key_states, image_data, origin>>
    /\ UNCHANGED <<oc_vars, g_vars, d_vars, a_vars, h_vars, u_vars>>

\* The sources and configurations tried.
BuilderRates == {1, 3, 4, 8, 44100}
BuilderSamples == {Fin(0), Fin(FScale)}
Resolutions == {Fin(FScale), Fin(2 * FScale), Fin(8 * FScale)}
Durations == {1, 2}

BuilderStart ==
    /\ b_pc = "start"
    /\ b_source \in [sample_rate : BuilderRates,
                     data : SeqsUpTo(BuilderSamples, MaxData)]
    /\ b_config \in [resolution_hz : Resolutions, duration_sec : Durations,
                     algorithm : {"Fft", "Goertzel"}]
    /\ window_size = 0
    /\ width = 0
    /\ height = 0
    /\ row = 0
    /\ key_states = <<>>
    /\ image_data = <<>>
    /\ origin = <<>>
    /\ prev = NoPrev

\* No spectrogram is being built.
BuilderIdle ==
    /\ b_pc = "unused"
    /\ b_source = [sample_rate |-> 48000, data |-> <<>>]
    /\ b_config = [resolution_hz |-> Fin(50 * FScale), duration_sec |-> 90,
                   algorithm |-> "Fft"]
    /\ window_size = 0
    /\ width = 0
    /\ height = 0
    /\ row = 0
    /\ key_states = <<>>
    /\ image_data = <<>>
    /\ origin = <<>>
    /\ prev = NoPrev

NextBuilder ==
    \/ build_spectrum_fft
    \/ fft_row
    \/ build_spectrum_goertzel
    \/ goertzel_row
    \/ rebuild

\* ================================================================== window_fn.rs

\* Mutant of the scale of hann: the periodic window, 2 pi / sample_count.
hann_scale_Periodic(sample_count) ==
    FDiv(FMul(Fin(2 * FScale), PI), as_f32(sample_count))

\* let scale = 2.0 * std::f32::consts::PI / (sample_count - 1) as f32
hann_scale(sample_count) ==
    FDiv(FMul(Fin(2 * FScale), PI), as_f32(sample_count - 1))

\* let value = 0.5 - 0.5 * (scale * i as f32).cos()
hann_value(scale, i) ==
    FSub(Fin(FScale \div 2),
         FMul(Fin(FScale \div 2), FCos(FMul(scale, as_f32(i)))))

\* let halfsize = (sample_count + 1) / 2
hann_halfsize(sample_count) == (sample_count + 1) \div 2

\* hann(sample_count) up to its first loop: the match on sample_count.
hann ==
    /\ h_pc = "start"
    /\ IF h_sample_count = 0
       THEN h_window' = <<>> /\ h_pc' = "done"
       ELSE IF h_sample_count = 1
       THEN h_window' = <<Fin(0)>> /\ h_pc' = "done"
       ELSE h_window' = <<>> /\ h_pc' = "half"
    /\ UNCHANGED h_sample_count
    /\ UNCHANGED <<oc_vars, g_vars, d_vars, a_vars, b_vars, u_vars>>

\* One iteration of `for i in 0..halfsize`, or the end of that loop.
hann_half ==
    /\ h_pc = "half"
    /\ LET i == Len(h_window)
       IN IF i < hann_halfsize(h_sample_count)
          THEN /\ h_window' =
                      Append(h_window, hann_value(hann_scale(h_sample_count), i))
               /\ h_pc' = "half"
          ELSE /\ h_window' = h_window
               /\ h_pc' = "rest"
    /\ UNCHANGED h_sample_count
    /\ UNCHANGED <<oc_vars, g_vars, d_vars, a_vars, b_vars, u_vars>>

\* One iteration of `for i in halfsize..sample_count`, or the return of
\* the window.
hann_rest ==
    /\ h_pc = "rest"
    /\ LET i == Len(h_window)
       IN IF i < h_sample_count
          THEN /\ h_window' = Append(h_window, h_window[(h_sample_count - i - 1) + 1])
               /\ h_pc' = "rest"
          ELSE /\ h_window' = h_window
               /\ h_pc' = "done"
    /\ UNCHANGED h_sample_count
    /\ UNCHANGED <<oc_vars, g_vars, d_vars, a_vars, b_vars, u_vars>>

HannStart ==
    /\ h_pc = "start"
    /\ h_sample_count \in 0..MaxWindow
    /\ h_window = <<>>

\* hann is not being called.
HannIdle ==
    /\ h_pc = "unused"
    /\ h_sample_count = 0
    /\ h_window = <<>>

NextHann ==
    \/ hann
    \/ hann_half
    \/ hann_rest

\* ================================================================== main.rs: the Update schedule, egui_ui, update_spectrum

\* FftConfig::default()
FftConfig_default ==
    [resolution_hz |-> Fin(50 * FScale), duration_sec |-> 90, algorithm |-> "Fft"]

\* What a pass of the "FFT Config" window can leave in FftConfig: the two
\* ends of the slider 1.0..=50.0, two values of the slider 1..=120, the
\* two radio buttons.
UiConfigs ==
    [resolution_hz : {Fin(FScale), Fin(50 * FScale)},
     duration_sec : {1, 90},
     algorithm : {"Fft", "Goertzel"}]

\* The decoded streams of the files dropped while the schedule runs.
UpdateStreams ==
    {<<>>, <<[format |-> "F32", frames |-> 60]>>, <<[format |-> "S16", frames |-> 60]>>}

\* Events<UpdateSpectrum>: the events of the two buffers in the order they
\* were sent, each with its id, its sender and its age in frames.
\* EventWriter::send: the event gets the next id and enters the newer buffer.
Events_send(evs, count, from) ==
    Append(evs, [id |-> count + 1, from |-> from, age |-> 0])

\* Events::update, run once a frame by the event_update_system that
\* add_event installs: the older buffer is dropped, the newer one becomes
\* the older one.
Events_update(evs) ==
    LET kept == SelectSeq(evs, LAMBDA e : e.age = 0)
    IN [i \in 1..Len(kept) |-> [kept[i] EXCEPT !.age = 1]]

\* The events Events_update drops.
Events_dropped(evs) == SelectSeq(evs, LAMBDA e : e.age = 1)

\* EventReader::read: the events of both buffers the reader has not seen.
Events_read(evs, cursor) == SelectSeq(evs, LAMBDA e : e.id > cursor)

\* The condition of egui_ui under which UpdateSpectrum is sent.
egui_ui_changed(before, after) ==
    \/ before.resolution_hz # after.resolution_hz
    \/ before.duration_sec # after.duration_sec
    \/ before.algorithm # after.algorithm

\* The builder `match fft_config.algorithm` of update_spectrum calls.
update_spectrum_match(config) ==
    IF config.algorithm = "Fft" THEN "build_spectrum_fft"
    ELSE "build_spectrum_goertzel"

NoSpectrum == [fn |-> "none", source |-> FftSource_default, config |-> FftConfig_default]

NoPass == [ran |-> FALSE, changed |-> FALSE, sent |-> 0]

\* The system file_drop in a frame with one FileDragAndDrop::DroppedFile
\* event.
Update_file_drop ==
    /\ u_pc = "run"
    /\ event_count < MaxEvents
    /\ \E f \in DroppedFiles :
          IF Decoder_new(f.file, f.tracks, f.default_track).ok
          THEN \E rate \in FileRates, decoded \in UpdateStreams :
                  LET r == file_drop_Ok(u_source, "a.flac", rate, decoded)
                  IN /\ u_source' = r.source
                     /\ IF r.send
                        THEN /\ events' = Events_send(events, event_count, "file_drop")
                             /\ event_count' = event_count + 1
                        ELSE UNCHANGED <<events, event_count>>
          ELSE UNCHANGED <<u_source, events, event_count>>
    /\ UNCHANGED <<u_pc, fft_config, ran, last_event_count, spectrum,
                   rebuilt_for, lost, last_pass>>
    /\ UNCHANGED <<oc_vars, g_vars, d_vars, a_vars, b_vars, h_vars>>

\* The system play_note in a frame with one PlayNote event.
Update_play_note ==
    /\ u_pc = "run"
    /\ event_count < MaxEvents
    /\ u_source' = play_note_body(u_source, "Note: 440.00 Hz")
    /\ events' = Events_send(events, event_count, "play_note")
    /\ event_count' = event_count + 1
    /\ UNCHANGED <<u_pc, fft_config, ran, last_event_count, spectrum,
                   rebuilt_for, lost, last_pass>>
    /\ UNCHANGED <<oc_vars, g_vars, d_vars, a_vars, b_vars, h_vars>>

\* The system egui_ui: one pass of the "FFT Config" window, in which the
\* user leaves the widgets alone or moves some of them.
egui_ui ==
    /\ u_pc = "run"
    /\ "egui_ui" \notin ran
    /\ \E after \in UiConfigs :
          LET changed == egui_ui_changed(fft_config, after)
          IN /\ changed => event_count < MaxEvents
             /\ fft_config' = after
             /\ IF changed
                THEN /\ events' = Events_send(events, event_count, "egui_ui")
                     /\ event_count' = event_count + 1
                ELSE UNCHANGED <<events, event_count>>
             /\ last_pass' = [ran |-> TRUE,
                              changed |-> fft_config # after,
                              sent |-> event_count' - event_count]
    /\ ran' = ran \cup {"egui_ui"}
    /\ UNCHANGED <<u_pc, u_source, last_event_count, spectrum, rebuilt_for, lost>>
    /\ UNCHANGED <<oc_vars, g_vars, d_vars, a_vars, b_vars, h_vars>>

\* The system update_spectrum: for each event not read yet the one sprite
\* with Spectrum gets the image of the builder of fft_config.algorithm.
\* Both builders panic on a window size of 0, which ends the application
\* with the first event read.
update_spectrum ==
    /\ u_pc = "run"
    /\ "update_spectrum" \notin ran
    /\ LET unread == Events_read(events, last_event_count)
       IN IF unread = <<>>
          THEN UNCHANGED <<u_pc, last_event_count, spectrum, rebuilt_for>>
          ELSE IF fft_window_size(u_source, fft_config) = 0
          THEN /\ u_pc' = "panicked"
               /\ last_event_count' = unread[1].id
               /\ UNCHANGED <<spectrum, rebuilt_for>>
          ELSE /\ u_pc' = u_pc
               /\ last_event_count' = unread[Len(unread)].id
               /\ spectrum' = [fn |-> update_spectrum_match(fft_config),
                               source |-> u_source, config |-> fft_config]
               /\ rebuilt_for' = unread[Len(unread)].id
    /\ ran' = ran \cup {"update_spectrum"}
    /\ UNCHANGED <<u_source, fft_config, events, event_count, lost, last_pass>>
    /\ UNCHANGED <<oc_vars, g_vars, d_vars, a_vars, b_vars, h_vars>>

\* The end of a frame, once the systems of Update have run, and the
\* Events::update of the next one.
event_update_system ==
    /\ u_pc = "run"
    /\ ran = {"egui_ui", "update_spectrum"}
    /\ events' = Events_update(events)
    /\ lost' = lost + Len(Events_read(Events_dropped(events), last_event_count))
    /\ ran' = {}
    /\ UNCHANGED <<u_pc, u_source, fft_config, event_count, last_event_count,
                   spectrum, rebuilt_for, last_pass>>
    /\ UNCHANGED <<oc_vars, g_vars, d_vars, a_vars, b_vars, h_vars>>

\* App::run after the Startup schedule: the default resources, no event.
UpdateStart ==
    /\ u_pc = "run"
    /\ u_source = FftSource_default
    /\ fft_config = FftConfig_default
    /\ ran = {}
    /\ events = <<>>
    /\ event_count = 0
    /\ last_event_count = 0
    /\ spectrum = NoSpectrum
    /\ rebuilt_for = 0
    /\ lost = 0
    /\ last_pass = NoPass

\* The schedule is not running.
UpdateIdle ==
    /\ u_pc = "unused"
    /\ u_source = FftSource_default
    /\ fft_config = FftConfig_default
    /\ ran = {}
    /\ events = <<>>
    /\ event_count = 0
    /\ last_event_count = 0
    /\ spectrum = NoSpectrum
    /\ rebuilt_for = 0
    /\ lost = 0
    /\ last_pass = NoPass

NextUpdate ==
    \/ Update_file_drop
    \/ Update_play_note
    \/ egui_ui
    \/ update_spectrum
    \/ event_update_system

\* ================================================================== specifications

InitChunks == ChunksStart /\ GoertzelIdle /\ DecoderIdle /\ AppIdle /\ BuilderIdle
    /\ HannIdle /\ UpdateIdle
SpecChunks == InitChunks /\ [][NextChunks]_vars

InitGoertzel == GoertzelStart /\ ChunksIdle /\ DecoderIdle /\ AppIdle /\ BuilderIdle
    /\ HannIdle /\ UpdateIdle
SpecGoertzel == InitGoertzel /\ [][NextGoertzel]_vars

InitDecoder == DecoderStart /\ ChunksIdle /\ GoertzelIdle /\ AppIdle /\ BuilderIdle
    /\ HannIdle /\ UpdateIdle
SpecDecoder == InitDecoder /\ [][NextDecoder]_vars

\* decode() is straight-line code in a loop: once called, it keeps running.
FairSpecDecoder == SpecDecoder /\ WF_vars(decode_loop)

InitApp == AppStart /\ ChunksIdle /\ GoertzelIdle /\ DecoderIdle /\ BuilderIdle
    /\ HannIdle /\ UpdateIdle
SpecApp == InitApp /\ [][NextApp]_vars

InitBuilder ==
    BuilderStart /\ ChunksIdle /\ GoertzelIdle /\ DecoderIdle /\ AppIdle
    /\ HannIdle /\ UpdateIdle
SpecBuilder == InitBuilder /\ [][NextBuilder]_vars

InitHann ==
    HannStart /\ ChunksIdle /\ GoertzelIdle /\ DecoderIdle /\ AppIdle
    /\ BuilderIdle /\ UpdateIdle
SpecHann == InitHann /\ [][NextHann]_vars

InitUpdate ==
    UpdateStart /\ ChunksIdle /\ GoertzelIdle /\ DecoderIdle /\ AppIdle
    /\ BuilderIdle /\ HannIdle
SpecUpdate == InitUpdate /\ [][NextUpdate]_vars

\* Bevy runs every system of Update in every frame and ends the frame once
\* they have run.
FairSpecUpdate ==
    SpecUpdate /\ WF_vars(egui_ui) /\ WF_vars(update_spectrum)
    /\ WF_vars(event_update_system)

\* ------------------------------------------------------------------ claims C1..C5

Min(a, b) == IF a <= b THEN a ELSE b
Max(a, b) == IF a >= b THEN a ELSE b
CeilDiv(a, b) == (a + b - 1) \div b

\* The contents of the chunks returned so far.
ChunkElems == [k \in 1..Len(chunks) |-> Elems(chunks[k])]

\* C1: the k-th chunk returned (k = 0, 1, ...) starts at offset
\* k * (chunk_size - overlap) of the slice and has length
\* min(chunk_size, n - k * (chunk_size - overlap)); every chunk but the last
\* has exactly chunk_size elements.
C1_ChunkPlacement ==
    oc_pc \in {"iter", "done"} =>
        \A k \in 1..Len(chunks) :
            /\ chunks[k].off = (k - 1) * (chunk_size - overlap)
            /\ chunks[k].len =
                   Min(chunk_size, Len(slice) - (k - 1) * (chunk_size - overlap))
            /\ chunks[k].len >= 1
            /\ k < Len(chunks) => chunks[k].len = chunk_size

\* C1 witness: an exhausted iterator with overlap whose third and last
\* chunk is a short remainder.
C1_Witness ==
    /\ oc_pc = "done"
    /\ overlap >= 1
    /\ Len(chunks) >= 3
    /\ chunks[Len(chunks)].len < chunk_size

\* ceil(max(n - chunk_size, 0) / (chunk_size - overlap)) + 1 for n > 0, else 0.
ExpectedCount ==
    IF Len(slice) = 0 THEN 0
    ELSE CeilDiv(Max(Len(slice) - chunk_size, 0), chunk_size - overlap) + 1

\* C2: the number of chunks returned before next() returns None is
\* ExpectedCount, and size_hint() on the fresh iterator returns that number
\* as lower and as upper bound.
C2_ChunkCount ==
    /\ oc_pc = "done" => Len(chunks) = ExpectedCount
    /\ (hint.called /\ hint.after = 0) =>
           (hint.lower = ExpectedCount /\ hint.upper = ExpectedCount)

\* C2 witness: size_hint() was called on the fresh iterator, the iterator
\* is exhausted after at least three chunks, and a remainder was left over.
C2_Witness ==
    /\ oc_pc = "done"
    /\ hint.called /\ hint.after = 0
    /\ Len(chunks) >= 3
    /\ (Len(slice) - chunk_size) % (chunk_size - overlap) # 0

RECURSIVE Reconstruct(_)
\* The first k chunks, each after the first stripped of its first `overlap`
\* elements, concatenated.
Reconstruct(k) ==
    IF k = 0 THEN <<>>
    ELSE IF k = 1 THEN Elems(chunks[1])
    ELSE Reconstruct(k - 1)
            \o SubSeq(Elems(chunks[k]), overlap + 1, chunks[k].len)

\* The number of elements chunk k adds to the reconstruction.
NewElements(k) == IF k = 1 THEN chunks[1].len ELSE chunks[k].len - overlap

\* Concatenating the chunks without their overlap gives back the slice,
\* consecutive chunks share exactly `overlap` positions, and every chunk
\* adds at least one element.
ReconstructsSlice ==
    /\ Reconstruct(Len(chunks)) = slice
    /\ \A k \in 2..Len(chunks) :
           chunks[k].off + overlap = chunks[k - 1].off + chunks[k - 1].len
    /\ \A k \in 1..Len(chunks) : NewElements(k) >= 1

\* C3 as stated: the reconstruction law, resting on the final chunk being
\* always longer than `overlap`.
C3_FinalChunkAlwaysLonger ==
    (oc_pc = "done" /\ Len(chunks) >= 1) =>
        /\ ReconstructsSlice
        /\ chunks[Len(chunks)].len > overlap

\* C3 (amended): the reconstruction law holds, every chunk adds at least one
\* element, and every chunk after the first (the final one included) is
\* longer than `overlap`; a first chunk that is the whole slice may be as
\* short as one element.
C3_Reconstruction ==
    oc_pc = "done" =>
        /\ ReconstructsSlice
        /\ \A k \in 2..Len(chunks) : chunks[k].len > overlap

\* C3 witness: an exhausted iterator with overlap >= 2 and at least three
\* chunks, the last a short remainder.
C3_Witness ==
    /\ oc_pc = "done"
    /\ overlap >= 2
    /\ Len(chunks) >= 3
    /\ chunks[Len(chunks)].len < chunk_size

\* slice::windows(size) of the standard library: every contiguous window of
\* `size` elements, none when the slice is shorter than `size`.
windows(s, size) ==
    IF Len(s) < size THEN <<>>
    ELSE [i \in 1..(Len(s) - size + 1) |-> SubSeq(s, i, i + size - 1)]

\* C4: with overlap = chunk_size - 1 the chunks returned are the windows of
\* slice::windows(chunk_size), for a slice of any length.
C4_SameAsWindows ==
    (oc_pc = "done" /\ overlap = chunk_size - 1) =>
        ChunkElems = windows(slice, chunk_size)

\* C5: overlap_chunks panics, before any chunk is returned, exactly when
\* overlap >= chunk_size (chunk_size = 0 included); otherwise the step
\* next_chunk_offset is chunk_size - overlap, at least 1.
C5_PanicsIffOverlapTooLarge ==
    oc_pc # "start" =>
        /\ (oc_pc = "panicked") <=> (overlap >= chunk_size)
        /\ oc_pc = "panicked" => (chunks = <<>> /\ ~hint.called)
        /\ oc_pc \in {"iter", "done"} =>
              /\ iter.next_chunk_offset = chunk_size - overlap
              /\ iter.next_chunk_offset >= 1

\* C5 witness: the call with chunk_size = 0 has panicked.
C5_Witness ==
    /\ oc_pc = "panicked"
    /\ chunk_size = 0
    /\ overlap = 0

\* ------------------------------------------------------------------ claims C6, C7

\* The block the filter had been fed, since new() or the last reset(), when
\* magnitude() was last called.
MagBlock == SubSeq(samples, mag.from + 1, mag.from + mag.fed)

\* C6: a filter built with new() and fed N >= 1 samples in order through
\* process() holds the (q1, q2, coeff) the loop of the stateless goertzel()
\* ends in for the same samples, and magnitude(N) returns what goertzel()
\* returns for them.
C6_StatefulEqualsStateless ==
    /\ g_pc = "ready" =>
           /\ filter.coeff = goertzel_coeff(sample_rate, target_frequency)
           /\ <<filter.q1, filter.q2>> =
                  goertzel_loop(SubSeq(samples, pos - fed + 1, pos), 1,
                                Fin(0), Fin(0), filter.coeff)
    /\ (mag.called /\ mag.fed >= 1 /\ mag.block_size = mag.fed) =>
           mag.value = goertzel(MagBlock, sample_rate, target_frequency)
    /\ (mag.called /\ stateless.called /\ mag.from = 0
           /\ mag.fed = Len(samples) /\ mag.block_size = mag.fed /\ mag.fed >= 1) =>
           mag.value = stateless.value

\* C6 witness: magnitude(N) was read after a reset and N >= 2 samples, not
\* all of them zero, and is a non-zero number.
C6_Witness ==
    /\ mag.called
    /\ mag.from >= 1
    /\ mag.fed >= 2
    /\ mag.block_size = mag.fed
    /\ mag.value.k = "fin"
    /\ mag.value.v > 0

AllZero(smp) == \A i \in 1..Len(smp) : smp[i] = Fin(0)

\* C7 as stated: for an all-zero block of any length, the empty block
\* included, goertzel() and magnitude(block length) return exactly 0.0.
C7_SilenceIsZeroAnyLength ==
    /\ (stateless.called /\ AllZero(samples)) => stateless.value = Fin(0)
    /\ (mag.called /\ mag.block_size = mag.fed /\ AllZero(MagBlock)) =>
           mag.value = Fin(0)

\* C7 (amended): for an all-zero block of length N >= 1, goertzel() and
\* magnitude(N) return exactly 0.0, never NaN; for the empty block both
\* return NaN (0.0 / 0.0).
C7_SilenceIsZero ==
    /\ (stateless.called /\ AllZero(samples)) =>
           stateless.value = (IF Len(samples) >= 1 THEN Fin(0) ELSE NaN)
    /\ (mag.called /\ mag.block_size = mag.fed /\ AllZero(MagBlock)) =>
           mag.value = (IF mag.fed >= 1 THEN Fin(0) ELSE NaN)

\* C7 witness: both goertzel() and magnitude() have been applied to an
\* all-zero block of MaxSamples samples at a sample rate above the target
\* frequency.
C7_Witness ==
    /\ stateless.called
    /\ Len(samples) = MaxSamples
    /\ AllZero(samples)
    /\ mag.called /\ mag.fed = MaxSamples /\ mag.block_size = mag.fed
    /\ sample_rate = 8 /\ target_frequency = Fin(FScale)

\* ------------------------------------------------------------------ claims C8..C10

\* The track the claim says is selected: the default track if a decoder can
\* be made for it, else the first track in container order one can be made
\* for; [some, track_id].
ExpectedTrack ==
    LET usable == {i \in 1..Len(tracks) : make(tracks[i])}
    IN IF default_track # 0 /\ default_track \in usable
       THEN [some |-> TRUE, track_id |-> tracks[default_track].id]
       ELSE IF usable # {}
       THEN [some |-> TRUE,
             track_id |-> tracks[CHOOSE i \in usable : \A j \in usable : i <= j].id]
       ELSE [some |-> FALSE, track_id |-> 0]

\* C8: Decoder::new selects the default track if a decoder can be made for
\* it and else the first track in container order one can be made for; it
\* fails with "no compatible track found" exactly when no track yields a
\* decoder; decode() never changes the selected track_id.
C8_TrackSelection ==
    (file = "media" /\ d_pc # "start") =>
        /\ (d_pc = "failed") <=> ~ExpectedTrack.some
        /\ d_pc = "failed" => new_err = "no compatible track found"
        /\ d_pc \in {"idle", "loop"} =>
              (new_err = "" /\ track_id = ExpectedTrack.track_id)

\* C8 witness: the default track has no codec, the second track of the
\* container was selected, and decode() has returned a block since.
C8_Witness ==
    /\ d_pc = "idle"
    /\ Len(tracks) >= 2
    /\ default_track = 1
    /\ ~make(tracks[1])
    /\ track_id = tracks[2].id
    /\ Len(blocks) >= 1

\* The i-th item read from the stream is a packet of the selected track
\* that decodes.
IsValidSelected(i) ==
    /\ stream[i].kind = "packet"
    /\ stream[i].track_id = track_id
    /\ ~stream[i].corrupt

\* C9: the blocks returned by the successive decode() calls are exactly the
\* packets read so far that belong to the selected track and decode, in
\* stream order; packets of other tracks and corrupt packets are skipped.
C9_BlocksAreValidSelectedPackets ==
    d_pc \in {"idle", "loop"} =>
        blocks = SelectSeq([i \in 1..Len(stream) |-> i], IsValidSelected)

\* C9 witness: a packet of another track and a corrupt packet of the
\* selected track were read, and a later valid packet was returned.
C9_Witness ==
    /\ d_pc = "idle"
    /\ Len(blocks) >= 1
    /\ \E i, j \in 1..Len(stream) :
          /\ i < blocks[Len(blocks)] /\ j < blocks[Len(blocks)]
          /\ stream[i].kind = "packet" /\ stream[i].track_id # track_id
          /\ stream[j].kind = "packet" /\ stream[j].track_id = track_id
          /\ stream[j].corrupt

\* What a decode() call has returned and what it is doing agree with what
\* next_packet returned last: the loop goes on only after a packet, None is
\* returned exactly on a failed read, Some exactly for a valid packet of the
\* selected track, the one read last.
DecodeReturnsRight ==
    /\ d_pc = "loop" => ret.read \in {"none", "packet"}
    /\ (d_pc = "idle" /\ ret.called) =>
          /\ ret.some <=> (ret.read = "packet")
          /\ ~ret.some => ret.read \in {"err", "eof"}
          /\ ret.some => (ret.block = Len(stream) /\ IsValidSelected(ret.block))

\* C10: every call of decode() terminates, with None as soon as next_packet
\* fails and with Some only for a decoded packet of the selected track.
C10_DecodeTerminates ==
    /\ []DecodeReturnsRight
    /\ (d_pc = "loop") ~> (d_pc = "idle")

\* C10 witness: a call of decode() has skipped at least two packets and
\* returned None at the end of the stream.
C10_Witness ==
    /\ d_pc = "idle"
    /\ ret.called /\ ~ret.some
    /\ ret.read = "eof"
    /\ Len(stream) - ret.first + 1 >= 2
    /\ \A i \in ret.first..Len(stream) : stream[i].kind = "packet"

\* ------------------------------------------------------------------ claims C11, C12, C20

\* C11: after any sequence of file drops (successful, failed at open, or
\* aborted on a block that is not f32) and played notes, the source holds
\* at most sample_rate * 120 samples, for the sample rate it stores.
C11_DataWithinCap ==
    a_pc = "run" =>
        DataLen(fft_source.data) <= fft_source.sample_rate * 120

\* C11 witness: a file at a lower sample rate was dropped on a source that
\* held a played note, and the load was aborted on a block that is not f32
\* after at least one block had been accumulated.
C11_Witness ==
    /\ last.op = "file_drop"
    /\ last.outcome = "not f32"
    /\ last.before.sample_rate = 48000
    /\ DataLen(last.before.data) = 48000 * 120
    /\ fft_source.sample_rate = 1
    /\ Len(fft_source.data) >= 1

\* C12: a block that would push the sample count past the cap is truncated
\* to the samples that still fit, so a successfully loaded source holds the
\* first min(cap, stream length) samples of the stream: exactly cap samples
\* whenever the stream holds at least cap.
C12_OverflowingBlockTruncated ==
    (last.op = "file_drop" /\ last.outcome = "ok") =>
        DataLen(fft_source.data) =
            Min(fft_source.sample_rate * 120, last.stream_frames)

\* C20: a file load that fails, at Decoder::new or on a block that is not
\* f32, sends no UpdateSpectrum event and leaves the source (name,
\* sample_rate and samples) as it was before the drop.
C20_FailedLoadIsAtomic ==
    (last.op = "file_drop" /\ last.outcome \in {"open failed", "not f32"}) =>
        /\ ev_update_spectrum = last.sent_before
        /\ fft_source = last.before

\* ------------------------------------------------------------------ claims C13..C17, C19

\* The bytes of row r of the returned matrix.
RowBytes(r) == SubSeq(image_data, r * width + 1, (r + 1) * width)

\* C13: on both paths the returned matrix has width * height bytes and the
\* bytes computed from the r-th window are exactly those at positions
\* r * width .. (r + 1) * width - 1: every processed window appends
\* exactly `width` bytes, whatever the sample rate.
C13_RowsAreWidthBytes ==
    /\ b_pc \in {"fft", "goertzel"} => Len(image_data) = row * width
    /\ b_pc = "done" =>
           /\ Len(image_data) = width * height
           /\ \A p \in 1..Len(origin) :
                  (origin[p] >= 0) <=> (p <= row * width)
           /\ \A p \in 1..Len(origin) :
                  origin[p] >= 0 => origin[p] = (p - 1) \div width

\* C14: in the returned matrix every row whose window the source does not
\* fully cover is all zero, on both paths.
C14_UncoveredRowsAreZero ==
    (b_pc = "done" /\ b_source.data # <<>>) =>
        \A r \in 0..(height - 1) :
            (r + 1) * window_size > Len(b_source.data) =>
                \A p \in 1..Len(RowBytes(r)) : RowBytes(r)[p] = 0

\* C15: with a window size of 0 or a source without samples both builders
\* return an error, neither a matrix nor a panic.
C15_ErrorOnDegenerateInput ==
    (/\ b_pc \notin {"start", "fft", "goertzel"}
     /\ \/ fft_window_size(b_source, b_config) = 0
        \/ b_source.data = <<>>) =>
        b_pc = "error"

\* sample_rate / resolution_hz rounded to the nearest integer.
RoundedQuotient ==
    RoundDiv(b_source.sample_rate * FScale, b_config.resolution_hz.v)

\* sample_rate / resolution_hz rounded down.
TruncatedQuotient ==
    (b_source.sample_rate * FScale) \div b_config.resolution_hz.v

\* C16 as stated: the window size of both paths is sample_rate /
\* resolution_hz rounded to the nearest integer, 5513 for 44100 and 8.
C16_WindowSizeIsRounded ==
    b_pc \in {"fft", "goertzel", "done"} => window_size = RoundedQuotient

\* C16 (amended): the window size of both paths is the quotient
\* sample_rate / resolution_hz truncated towards zero, 5512 for 44100 and
\* 8 (quotient 5512.5); it is the largest integer not above the f32
\* quotient.
C16_WindowSizeIsTruncated ==
    b_pc \in {"fft", "goertzel", "done"} =>
        LET q == FDiv(as_f32(b_source.sample_rate), b_config.resolution_hz)
        IN /\ window_size = TruncatedQuotient
           /\ window_size * FScale <= q.v
           /\ q.v < (window_size + 1) * FScale

\* C16 witness: a build at 44100 Hz with a resolution of 8 Hz uses a
\* window of 5512 samples.
C16_Witness ==
    /\ b_pc = "done"
    /\ b_source.sample_rate = 44100
    /\ b_config.resolution_hz = Fin(8 * FScale)
    /\ window_size = 5512

\* C17: a second build from the same source and the same config returns
\* the width, the height and the bytes the first returned: nothing the
\* first build left behind reaches the second.
C17_RebuildIsIdentical ==
    (b_pc = "done" /\ prev.built) =>
        /\ width = prev.width
        /\ height = prev.height
        /\ image_data = prev.data

\* C17 witness: a second build on the Goertzel path has returned an image
\* with two rows computed from samples, not all bytes zero.
C17_Witness ==
    /\ b_pc = "done"
    /\ prev.built
    /\ b_config.algorithm = "Goertzel"
    /\ row >= 2
    /\ \E p \in 1..Len(image_data) : image_data[p] # 0

\* The samples of window r: the r-th chunk of source.data.chunks(window_size).
Window(r) ==
    SubSeq(b_source.data, r * window_size + 1,
           Min((r + 1) * window_size, Len(b_source.data)))

\* The byte of a key in row r, computed from the samples of window r alone:
\* the loop of the stateless goertzel() from zeroed q1, q2, normalised by
\* window_size.
ExpectedKeyByte(r, key) ==
    LET coeff == goertzel_coeff(b_source.sample_rate, key_frequency(key - 1))
        q == goertzel_loop(Window(r), 1, Fin(0), Fin(0), coeff)
        energy == FSqrt(FSub(FAdd(FMul(q[1], q[1]), FMul(q[2], q[2])),
                             FMul(FMul(q[1], q[2]), coeff)))
        s == FDiv(FMul(Fin(2 * FScale), energy), as_f32(window_size))
    IN as_u8(FMul(FSqrt(s), Fin(255 * FScale)))

\* C19: on the Goertzel path every filter has q0 = q1 = q2 = 0 at the
\* start of each row (it was reset after its magnitude was read), and the
\* bytes of row r are those computed from the samples of window r alone.
C19_FiltersResetEachRow ==
    /\ b_pc = "goertzel" =>
           /\ Len(key_states) = MaxKeys
           /\ \A key \in 1..Len(key_states) :
                  /\ key_states[key].q0 = Fin(0)
                  /\ key_states[key].q1 = Fin(0)
                  /\ key_states[key].q2 = Fin(0)
    /\ (b_pc \in {"goertzel", "done"} /\ b_config.algorithm = "Goertzel") =>
           \A r \in 0..(row - 1) : \A key \in 1..MaxKeys : \A j \in 1..3 :
               image_data[r * width + 2 + 3 * (key - 1) + j] = ExpectedKeyByte(r, key)

\* C19 witness: the Goertzel path has pushed two rows, the first from a
\* window that is not silent, the second with a non-zero byte.
C19_Witness ==
    /\ b_pc = "done"
    /\ b_config.algorithm = "Goertzel"
    /\ row >= 2
    /\ \E i \in 1..window_size : b_source.data[i] # Fin(0)
    /\ \E p \in 1..width : RowBytes(1)[p] # 0

\* ------------------------------------------------------------------ claim C18

\* window[i] + window[i + sample_count / 2] - 1.0, in steps of the grid.
HalvesSumError(i) ==
    LET d == FAdd(h_window[i + 1], h_window[i + (h_sample_count \div 2) + 1]).v
                 - FScale
    IN IF d < 0 THEN -d ELSE d

\* C18 as stated: for every even sample_count >= 2 the two halves of the
\* window add up to 1.0 within floating tolerance (here three steps of the
\* grid) at every i in [0, sample_count / 2).
C18_EvenHalvesSumToOne ==
    (h_pc = "done" /\ h_sample_count >= 2 /\ h_sample_count % 2 = 0) =>
        \A i \in 0..(h_sample_count \div 2 - 1) : HalvesSumError(i) <= 3

\* C18 (amended): for odd sample_count >= 3 the sum window[i] + window[i +
\* sample_count / 2] is 1.0 within floating tolerance; for even
\* sample_count >= 2 it is within pi / (2 * (sample_count - 1)) of 1.0,
\* which is 1.0 only in the limit of a long window.
C18_HalvesSum ==
    (h_pc = "done" /\ h_sample_count >= 2) =>
        \A i \in 0..(h_sample_count \div 2 - 1) :
            IF h_sample_count % 2 = 1
            THEN HalvesSumError(i) <= 3
            ELSE HalvesSumError(i) * 2 * (h_sample_count - 1)
                     <= PI.v + 3 * 2 * (h_sample_count - 1)

\* C18 witness: hann(4) has been returned; its halves add up to 0.75 at
\* i = 0 and at i = 1.
C18_Witness ==
    /\ h_pc = "done"
    /\ h_sample_count = 4
    /\ HalvesSumError(0) * 4 = FScale
    /\ HalvesSumError(1) * 4 = FScale

\* ------------------------------------------------------------------ claim C21

\* A pass of egui_ui that changed a field of the config sent exactly one
\* UpdateSpectrum event, a pass that changed none sent none.
PassEmitsIffChanged ==
    last_pass.ran => last_pass.sent = (IF last_pass.changed THEN 1 ELSE 0)

\* No event leaves the buffers of Events<UpdateSpectrum> before
\* update_spectrum has read it.
NoEventLost == lost = 0

\* A step in which update_spectrum reads events leaves the image built by
\* the builder of the selected algorithm from the current source and the
\* current config.
ConsumedEventRebuilds ==
    [][last_event_count' # last_event_count =>
           /\ rebuilt_for' = last_event_count'
           /\ spectrum' = [fn |-> update_spectrum_match(fft_config),
                           source |-> u_source, config |-> fft_config]]_vars

\* Every event sent is read by update_spectrum in the end.
EveryEventConsumed ==
    \A n \in 1..MaxEvents : (event_count >= n) ~> (last_event_count >= n)

\* C21: a pass of egui_ui that changes resolution_hz, duration_sec or
\* algorithm emits an UpdateSpectrum event in that pass and a pass that
\* changes no field emits none; every UpdateSpectrum event, from a config
\* change, a file load or a played note, is consumed by update_spectrum in
\* the end, and consuming it rebuilds the spectrogram from the current
\* source and the current config with the selected algorithm.
C21_EveryEventRebuildsTheSpectrum ==
    /\ [](PassEmitsIffChanged /\ NoEventLost)
    /\ ConsumedEventRebuilds
    /\ EveryEventConsumed
====
